---------------------------- MODULE Spec2Model ----------------------------
(***************************************************************************)
(* CYBERGRID: Breach Containment (src/vite.config.js).                     *)
(*                                                                         *)
(* The React component App is modelled as a state machine.  One action of  *)
(* the model is one browser event (an animation frame, a key press, a      *)
(* button click, a canvas click) together with the render and the effects  *)
(* React runs for it: state updates queued by a handler are applied in     *)
(* the render that follows the handler, and the effects whose dependencies *)
(* changed run after that render.                                          *)
(*                                                                         *)
(* Units.  Wall-clock time (performance.now(), cooldown stamps, the sweep  *)
(* window) and the game timer are in milliseconds; dt is in milliseconds;  *)
(* energy is in thousandths of an energy point (7 per second is 7 units    *)
(* per millisecond); cleanProg is in 1/100000 s (dt * (0.6 + 0.8 *         *)
(* patched) is dt_ms * (60 + 8 * patched10) units); patched is in tenths;  *)
(* risk is in units of 1 / (100 * node count), so that risk >= 1 reads     *)
(* risk >= RiskOne.  All of these are exact for the values the model uses. *)
(***************************************************************************)
EXTENDS Integers, Sequences, FiniteSets, TLC

VARIABLES
    now,              \* performance.now(), ms
    nodes,            \* graph.nodes: node id -> node record
    edges,            \* graph.edges: sequence of [a, b]
    selected,         \* selected node id, or NULL
    energy,
    timer,
    risk,
    score,
    running,
    paused,
    gameOver,
    victory,
    cooldowns,        \* action name -> time of last use
    sweepActiveUntil,
    lastLog,          \* the last entry of the event log
    latestNodes,      \* window.__latestNodes
    loop,             \* the main loop effect's closure and its pending frame
    renderAt,         \* time of the last render (ActionButton's `ready`)
    size,             \* [width, height] of the canvas
    infectedFor,      \* history: node id -> game time of the frames since the
                      \* node was infected, ms (0 for a clean node)
    seed,             \* the seed drawn at mount
    gen,              \* the locals of a call of generateNetwork in progress
    returned,         \* the calls of generateNetwork that returned so far
    graphs,           \* size, seed -> what generateNetwork returns for them
    batch,            \* the state updates queued since the last render, or
                      \* those the last render applied
    inputs,           \* number of input events of the player so far
    horizon           \* wall-clock time up to which the model explores

\* the state of the program
appVars == <<now, nodes, edges, selected, energy, timer, risk, score, running,
             paused, gameOver, victory, cooldowns, sweepActiveUntil, lastLog,
             latestNodes, loop, renderAt, size, infectedFor, seed, gen>>

vars == <<appVars, returned, graphs, batch, inputs, horizon>>

----------------------------------------------------------------------------
(* Bounds of the model *)

\* number of nodes of a generated topology in the specifications of the
\* game (NODES is 32 in the source)
NumNodes == 2

\* the seeds 0 .. MaxSeed are explored in the specification of the generator
MaxSeed == 6

\* wall-clock time explored after the initial state, ms
MaxNow == 1320

\* number of input events of the player (key presses and clicks)
MaxInputs == 4

\* game time of a session whose frames are explored, ms (the frames of the
\* last LateFrames * DT_MAX ms of the clock are explored as well)
MaxPlayed == 100

\* game time left on the clock in the late-game initial states, in frames
\* of DT_MAX
LateFrames == 2

\* wall-clock time explored after a late-game initial state, ms
LateSpan == 700

\* game time explored from the initial states in which a cure is one frame
\* short of being due, in frames of DT_MAX
CureFrames == 2

\* wall-clock time explored after such an initial state, ms
CureSpan == 700

\* number of input events of the player explored after such an initial state
CureInputs == 3

\* number of nodes of the topology on which the spread of a frame is
\* explored, and the seed of that topology
SpreadNodes == 6

SpreadSeed == 33

\* wall-clock time explored on that topology, ms
SpreadSpan == 80

\* number of input events of the player explored on that topology
SpreadInputs == 2

\* number of attempts of one frame of that exploration whose draw is below p
SpreadHits == 2

\* number of input events of the player in the sessions that are followed
\* to their end
LiveInputs == 2

----------------------------------------------------------------------------
(* Constants of the program *)

START_TIME == 180

ENERGY_MAX == 100

ENERGY_START == 70

ENERGY_REGEN == 7

\* CLEAN_TIME = 6.5 s, in 1/100000 s
CLEAN_TIME == 650000

\* dt is clamped to 0.06 s
DT_MAX == 60

\* the stamp of an action that was never used: -1e9
NEVER == -1000000000

SWEEP_MS == 8000

WIN_BONUS == 200

CURE_BONUS == 25

LURE_BONUS == 8

\* critInf * 0.22, in hundredths
CRIT_PENALTY == 22

\* patched + 0.6, in tenths
PATCH_STEP == 6

ACTION_TABLE ==
    [isolate  |-> [cost |-> 18, cooldown |-> 1200, notReady |-> "Isolate not ready.",
                   done |-> "Node toggled isolation."],
     patch    |-> [cost |-> 24, cooldown |-> 1400, notReady |-> "Patch not ready.",
                   done |-> "Patching... hardening applied."],
     honeypot |-> [cost |-> 28, cooldown |-> 4000, notReady |-> "Honeypot not ready.",
                   done |-> "honeypot toggled."],
     sweep    |-> [cost |-> 36, cooldown |-> 12000, notReady |-> "Sweep not ready.",
                   done |-> "IDS sweep engaged."]]

ActionNames == {"isolate", "patch", "honeypot", "sweep"}

NULL == -1

EnergyUnit == 1000

TimerStart == START_TIME * 1000

NodeIds == 0 .. (NumNodes - 1)

\* time between two animation frames, ms: a frame shorter than the clamp of
\* dt and a frame longer than it
FrameGaps == {40, 600}

\* time that passes between two events while no frame is pending, ms
IdleGaps == {600}

Min(a, b) == IF a < b THEN a ELSE b

Max(a, b) == IF a > b THEN a ELSE b

\* const clamp / Math.max(a, Math.min(b, n))
Clamp(n, a, b) == Max(a, Min(b, n))

----------------------------------------------------------------------------
(* seededRandom: Mulberry32 on 32-bit words.  A word is a pair <<hi, lo>> of *)
(* 16-bit halves, so that no intermediate value leaves the 32-bit integers. *)

Half == 65536

\* the word of a number below 2^31
Word(x) == <<x \div Half, x % Half>>

\* the 32-bit words
Words == (0 .. Half - 1) \X (0 .. Half - 1)

\* the 32-bit product of two 16-bit numbers
Mul16[a \in Nat, b \in Nat] ==
    LET p1 == a * (b % 256)
        p2 == a * (b \div 256)
        q  == p1 + (p2 % 256) * 256
    IN  <<(p2 \div 256) + (q \div Half), q % Half>>

\* a + b, modulo 2^32
Add32[a \in Words, b \in Words] ==
    LET l == a[2] + b[2]
    IN  <<(a[1] + b[1] + (l \div Half)) % Half, l % Half>>

\* Math.imul(a, b)
Imul[a \in Words, b \in Words] ==
    LET m == Mul16[a[2], b[2]]
    IN  <<(m[1] + Mul16[a[1], b[2]][2] + Mul16[a[2], b[1]][2]) % Half, m[2]>>

\* a ^ b and a | b, bit by bit
Xor[a \in Nat, b \in Nat] ==
    IF a = 0 THEN b
    ELSE IF b = 0 THEN a
    ELSE 2 * Xor[a \div 2, b \div 2] + ((a + b) % 2)

Or[a \in Nat, b \in Nat] ==
    IF a = 0 THEN b
    ELSE IF b = 0 THEN a
    ELSE 2 * Or[a \div 2, b \div 2] + (IF a % 2 = 1 \/ b % 2 = 1 THEN 1 ELSE 0)

Xor32[a \in Words, b \in Words] == <<Xor[a[1], b[1]], Xor[a[2], b[2]]>>

Or32[a \in Words, b \in Words] == <<Or[a[1], b[1]], Or[a[2], b[2]]>>

\* a >>> n, for 0 < n < 16
Pow2(n) == IF n = 7 THEN 128 ELSE IF n = 14 THEN 16384 ELSE 32768

Shr32[a \in Words, n \in Nat] ==
    <<a[1] \div Pow2(n), (a[2] \div Pow2(n)) + (a[1] % Pow2(n)) * (Half \div Pow2(n))>>

\* 0x6D2B79F5
INCREMENT == <<27947, 31221>>

\* t = Math.imul(s ^ (s >>> 15), 1 | s)
mixFirst[s \in Words] == Imul[Xor32[s, Shr32[s, 15]], Or32[<<0, 1>>, s]]

\* t ^= t + Math.imul(t ^ (t >>> 7), 61 | t)
mixSecond[t \in Words] ==
    Xor32[t, Add32[t, Imul[Xor32[t, Shr32[t, 7]], Or32[<<0, 61>>, t]]]]

\* (t ^ (t >>> 14)) >>> 0
finish[t \in Words] == Xor32[t, Shr32[t, 14]]

\* the 32-bit word behind call number i (1, 2, ...) of the function that
\* seededRandom(seed) returns: s is seed + i * 0x6D2B79F5
mulberry32[sd \in Nat, i \in Nat] ==
    finish[mixSecond[mixFirst[Add32[Word(sd), Imul[Word(i), INCREMENT]]]]]

\* Math.floor(rand() * K) for an integer K below 2^15, where rand() is
\* v / 4294967296
Scale[v \in Words, K \in Nat] == (v[1] * K + ((v[2] * K) \div Half)) \div Half

\* a variant of the generator that is seeded from the clock as well
seededRandomClock(sd, i, K) == Scale[mulberry32[sd + now, i], K]

\* Math.floor(rand() * K) of call i
seededRandom(sd, i, K) == Scale[mulberry32[sd, i], K]

----------------------------------------------------------------------------
(* Network generation.  Lengths are in tenths of a pixel, angles in tenths  *)
(* of a milliradian, cosines in 1/10000, security and edge weights in       *)
(* thousandths; each is rounded down to its unit.                           *)

NODES == 32

CRITICAL_COUNT == 3

\* const k = 3
K_NEAREST == 3

\* security + 0.15, in thousandths
CRIT_SECURITY == 150

\* initial infection: for (let i = 0; i < 2; i++)
SEED_INFECTIONS == 2

PREFIX == <<"core", "edge", "dmz", "auth", "cache", "db", "api", "ops", "mesh",
            "quant", "ml", "crypto", "telemetry", "log", "mail">>

SUFFIX == <<"-north", "-south", "-west", "-east", "-alpha", "-beta", "-gamma",
            "-x", "-y", "-z", "-01", "-02", "-03", "-svc", "-gw">>

CRIT_NAMES == <<"Core-DB", "Finance-DB", "Auth-Server", "PKI-Root", "Ledger",
                "SCADA-Hub">>

\* genName(rand), with calls i and i + 1
genName(sd, i) ==
    <<PREFIX[seededRandom(sd, i, Len(PREFIX)) + 1],
      SUFFIX[seededRandom(sd, i + 1, Len(SUFFIX)) + 1]>>

\* Math.cos(x) for x in [0, pi / 2]
CosQuarter[x \in Nat] ==
    LET x2 == (x * x) \div 10000
        x4 == (x2 * x2) \div 10000
    IN  10000 - (x2 \div 2) + (x4 \div 24) - ((x4 * x2) \div 7200000)

\* Math.cos(t) and Math.sin(t)
Cos[t \in Nat] ==
    LET a == t % 62832
    IN  IF a <= 15708 THEN CosQuarter[a]
        ELSE IF a <= 31416 THEN 0 - CosQuarter[31416 - a]
        ELSE IF a <= 47124 THEN 0 - CosQuarter[a - 31416]
        ELSE CosQuarter[62832 - a]

Sin[t \in Nat] == Cos[t + 47124]

\* ringCount = Math.round((NODES / rings) * (1 + (r === 2 ? 0.2 : 0))), with
\* rings = 3
ringCount(count, r) ==
    IF r = 2 THEN (4 * count + 5) \div 10 ELSE (2 * count + 3) \div 6

\* the number of nodes the placement loops push
placed(count) ==
    IF count < ringCount(count, 0) + ringCount(count, 1) + ringCount(count, 2)
    THEN count
    ELSE ringCount(count, 0) + ringCount(count, 1) + ringCount(count, 2)

\* the ring of node id, and its index i within the ring
ringOf(count, id) ==
    IF id < ringCount(count, 0) THEN 0
    ELSE IF id < ringCount(count, 0) + ringCount(count, 1) THEN 1
    ELSE 2

slotOf(count, id) ==
    IF ringOf(count, id) = 0 THEN id
    ELSE IF ringOf(count, id) = 1 THEN id - ringCount(count, 0)
    ELSE id - ringCount(count, 0) - ringCount(count, 1)

\* the node pushed with this id: its five calls of rand are 5 * id + 1 to
\* 5 * id + 5
placeNode(count, width, height, sd, id) ==
    LET r       == ringOf(count, id)
        radius  == (Min(width, height) * 36) \div 10
        rRadius == (radius * (4 + 3 * r)) \div 10
        t       == ((slotOf(count, id) * 62832) \div ringCount(count, r))
                     + seededRandom(sd, 5 * id + 1, 1000)
        jitter  == seededRandom(sd, 5 * id + 2, 300) - 150
    IN  [id |-> id,
         x |-> width * 5 + ((Cos[t] * (rRadius + jitter)) \div 10000),
         y |-> height * 5 + ((Sin[t] * (rRadius + jitter)) \div 10000),
         infected |-> FALSE, isolated |-> FALSE, patched |-> 0,
         honeypot |-> FALSE,
         security |-> 300 + seededRandom(sd, 5 * id + 3, 550),
         critical |-> FALSE,
         name |-> genName(sd, 5 * id + 4),
         cleanProg |-> 0,
         lastInfectAt |-> NEVER]

\* the body of the loop that tags critical nodes, for its index i, with the
\* value `draw` of rand
tagCritical(ns, i, draw) ==
    [ns EXCEPT ![draw].critical = TRUE,
               ![draw].name = <<CRIT_NAMES[(i % Len(CRIT_NAMES)) + 1]>>,
               ![draw].security = Min(1000, ns[draw].security + CRIT_SECURITY)]

\* d = (a.x - b.x) ** 2 + (a.y - b.y) ** 2
dist(a, b) == (a.x - b.x) * (a.x - b.x) + (a.y - b.y) * (a.y - b.y)

\* u sorts before v in the list of the nodes around a: ascending d, and the
\* sort is stable, so nodes at the same distance stay in id order
nearer(ns, a, u, v) ==
    \/ dist(ns[a], ns[u]) < dist(ns[a], ns[v])
    \/ dist(ns[a], ns[u]) = dist(ns[a], ns[v]) /\ u < v

\* the first m entries of the sorted list of the nodes of `others`
RECURSIVE nearest(_, _, _, _)
nearest(ns, a, others, m) ==
    IF m = 0 \/ others = {}
    THEN <<>>
    ELSE LET b == CHOOSE u \in others : \A v \in others \ {u} : nearer(ns, a, u, v)
         IN  <<b>> \o nearest(ns, a, others \ {b}, m - 1)

\* a variant of the search that finds an edge in one direction only
linkedOneWay(es, a, b) == \E j \in 1 .. Len(es) : es[j].a = a /\ es[j].b = b

\* edges.find((e) => (e.a === a && e.b === b) || (e.a === b && e.b === a))
linked(es, a, b) ==
    \E j \in 1 .. Len(es) : \/ es[j].a = a /\ es[j].b = b
                            \/ es[j].a = b /\ es[j].b = a

\* for (const n of dists), from entry j on: lk holds the edges and the
\* number of calls of rand made so far
RECURSIVE linkNearest(_, _, _, _, _)
linkNearest(lk, sd, a, dists, j) ==
    IF j > Len(dists)
    THEN lk
    ELSE IF linked(lk.edges, a, dists[j])
         THEN linkNearest(lk, sd, a, dists, j + 1)
         ELSE linkNearest([edges |-> Append(lk.edges,
                                            [a |-> a, b |-> dists[j],
                                             w |-> 500 + seededRandom(sd, lk.calls + 1, 900)]),
                           calls |-> lk.calls + 1],
                          sd, a, dists, j + 1)

\* the body of the loop that connects each node to its k nearest, for node a
linkNode(lk, ns, sd, a) ==
    linkNearest([edges |-> lk.edges, calls |-> lk.calls + 1], sd, a,
                nearest(ns, a, DOMAIN ns \ {a},
                        K_NEAREST + 1 + seededRandom(sd, lk.calls + 1, 2)),
                1)

\* the body of the loop that sprinkles cross links
crossLink(lk, ns, sd) ==
    LET a == seededRandom(sd, lk.calls + 1, Cardinality(DOMAIN ns))
        b == seededRandom(sd, lk.calls + 2, Cardinality(DOMAIN ns))
    IN  IF a # b /\ ~linked(lk.edges, a, b)
        THEN [edges |-> Append(lk.edges,
                               [a |-> a, b |-> b,
                                w |-> 400 + seededRandom(sd, lk.calls + 3, 800)]),
              calls |-> lk.calls + 3]
        ELSE [edges |-> lk.edges, calls |-> lk.calls + 2]

\* the body of the loop that seeds the initial infection, with the value
\* `draw` of rand
seedInfection(ns, draw) ==
    [ns EXCEPT ![draw].infected = TRUE, ![draw].lastInfectAt = 0]

\* the locals of generateNetwork when it is entered: `at` is the loop the
\* call is in, i its index, calls the number of calls of rand made so far
enterGenerate(count, width, height, sd) ==
    [count |-> count, width |-> width, height |-> height, seed |-> sd,
     at |-> "place", i |-> 0, calls |-> 0, nodes |-> <<>>, edges |-> <<>>]

\* the loop after loop `at` of a call that places n nodes, or the first of
\* the later loops whose body runs at least once
Loops == <<"place", "tag", "connect", "cross", "infect", "return">>

passes(count, n, at) ==
    IF at = "place" \/ at = "connect" THEN n
    ELSE IF at = "tag" THEN CRITICAL_COUNT
    ELSE IF at = "cross" THEN (count * 4) \div 10
    ELSE IF at = "infect" THEN SEED_INFECTIONS
    ELSE 1

RECURSIVE loopFrom(_, _, _)
loopFrom(count, n, l) ==
    IF passes(count, n, Loops[l]) > 0 THEN Loops[l] ELSE loopFrom(count, n, l + 1)

\* one pass of the loop generateNetwork is in
generateStep(g) ==
    LET n    == placed(g.count)
        lk   == [edges |-> g.edges, calls |-> g.calls]
        draw == seededRandom(g.seed, g.calls + 1, n)
        body == IF g.at = "place"
                THEN [g EXCEPT !.nodes = g.nodes @@ (g.i :> placeNode(g.count, g.width,
                                                                     g.height, g.seed, g.i)),
                               !.calls = g.calls + 5]
                ELSE IF g.at = "tag"
                THEN [g EXCEPT !.nodes = tagCritical(g.nodes, g.i, draw),
                               !.calls = g.calls + 1]
                ELSE IF g.at = "connect"
                THEN [g EXCEPT !.edges = linkNode(lk, g.nodes, g.seed, g.i).edges,
                               !.calls = linkNode(lk, g.nodes, g.seed, g.i).calls]
                ELSE IF g.at = "cross"
                THEN [g EXCEPT !.edges = crossLink(lk, g.nodes, g.seed).edges,
                               !.calls = crossLink(lk, g.nodes, g.seed).calls]
                ELSE [g EXCEPT !.nodes = seedInfection(g.nodes, draw),
                               !.calls = g.calls + 1]
        l    == CHOOSE p \in 1 .. Len(Loops) : Loops[p] = g.at
    IN  IF g.i + 1 < passes(g.count, n, g.at)
        THEN [body EXCEPT !.i = g.i + 1]
        ELSE [body EXCEPT !.at = loopFrom(g.count, n, l + 1), !.i = 0]

\* the call runs to its return statement (h is the value of the locals after
\* the pass)
RECURSIVE generateRun(_)
generateRun(g) ==
    IF g.at = "return"
    THEN g
    ELSE CHOOSE r \in {generateRun(h) : h \in {generateStep(g)}} : TRUE

\* generateNetwork(width, height, seed), for NODES = count
generateNetwork(count, width, height, sd) ==
    [nodes |-> generateRun(enterGenerate(count, width, height, sd)).nodes,
     edges |-> generateRun(enterGenerate(count, width, height, sd)).edges]

\* no call of generateNetwork is in progress
NoCall ==
    [count |-> 0, width |-> 0, height |-> 0, seed |-> 0,
     at |-> "idle", i |-> 0, calls |-> 0, nodes |-> <<>>, edges |-> <<>>]

\* useState([900, 560]), and the sizes the ResizeObserver reports
InitialSize == <<900, 560>>

Sizes == {InitialSize, <<640, 460>>}

\* the values of Math.floor(Math.random() * 1e9) explored in the
\* specifications of the game, and in the specification of the generator
GameSeeds == {319, 15}

GenSeeds == 0 .. MaxSeed

\* what generateNetwork(size[0], size[1], s) returns, for the sizes and seeds
\* of the game
Graphs ==
    [sz \in Sizes, s \in GameSeeds |-> generateNetwork(NumNodes, sz[1], sz[2], s)]

----------------------------------------------------------------------------
(* Risk *)

\* inf = _nodes.filter((n) => n.infected).length
inf(ns) == Cardinality({n \in DOMAIN ns : ns[n].infected})

\* critInf = _nodes.filter((n) => n.critical && n.infected).length
critInf(ns) == Cardinality({n \in DOMAIN ns : ns[n].critical /\ ns[n].infected})

\* risk = 1, in the model's unit 1 / (100 * max(1, _nodes.length))
RiskOne(ns) == 100 * Max(1, Cardinality(DOMAIN ns))

\* computedRisk = clamp01(inf / max(1, len) + critInf * 0.22)
computedRisk(ns) ==
    Clamp(100 * inf(ns) + CRIT_PENALTY * Max(1, Cardinality(DOMAIN ns)) * critInf(ns),
          0, RiskOne(ns))

----------------------------------------------------------------------------
(* The main loop effect *)

\* no update was queued yet
NoBatch == [updates |-> <<>>, rendered |-> TRUE]

\* no frame is pending and no closure is alive
NoLoop == [raf |-> FALSE, last |-> 0, sweepActiveUntil |-> 0, risk |-> 0, timer |-> 0]

\* the effect body: it returns early unless the game runs, and otherwise
\* captures risk, timer and sweepActiveUntil of the render it belongs to,
\* sets last = now() and requests a frame
LoopEffect(run, pau, over, rk, tm, sw, t) ==
    IF ~run \/ pau \/ over
    THEN NoLoop
    ELSE [raf |-> TRUE, last |-> t, sweepActiveUntil |-> sw, risk |-> rk, timer |-> tm]

----------------------------------------------------------------------------
(* Gameplay helpers *)

\* a variant of canUse that leaves the cooldown out
canUseEnergyOnly(name, e, cds, t) == e >= ACTION_TABLE[name].cost * EnergyUnit

\* canUse(name), with now() = t
canUse(name, e, cds, t) ==
    /\ e >= ACTION_TABLE[name].cost * EnergyUnit
    /\ t - cds[name] >= ACTION_TABLE[name].cooldown

\* spend(name): the setEnergy updater
spendEnergy(name, e) ==
    Clamp(e - ACTION_TABLE[name].cost * EnergyUnit, 0, ENERGY_MAX * EnergyUnit)

\* a variant of spendCooldown that stamps nothing
spendCooldownNever(name, cds, t) == cds

\* spend(name): the setCooldowns updater
spendCooldown(name, cds, t) == [cds EXCEPT ![name] = t]

\* the setGraph updater of actIsolate / actPatch / actHoneypot
actNode(name, n) ==
    CASE name = "isolate"  -> [n EXCEPT !.isolated = ~n.isolated]
      [] name = "patch"    -> [n EXCEPT !.patched = Clamp(n.patched + PATCH_STEP, 0, 10)]
      [] name = "honeypot" -> [n EXCEPT !.honeypot = ~n.honeypot]
      [] OTHER             -> n

\* what an action request pushes to the log
actReport(name, sel, e, cds, t) ==
    IF name # "sweep" /\ sel = NULL THEN "Select a node first."
    ELSE IF ~canUse(name, e, cds, t) THEN ACTION_TABLE[name].notReady
    ELSE ACTION_TABLE[name].done

\* the request is applied: neither early return is taken
actApplies(name, sel, e, cds, t) ==
    /\ name = "sweep" \/ sel # NULL
    /\ canUse(name, e, cds, t)

\* actIsolate / actPatch / actHoneypot / actSweep, and the render after it.
\* No dependency of the main loop effect changes, so the pending frame keeps
\* the closure it has.
act(name) ==
    /\ lastLog' = actReport(name, selected, energy, cooldowns, now)
    /\ IF actApplies(name, selected, energy, cooldowns, now)
       THEN /\ nodes' = IF name = "sweep" THEN nodes
                        ELSE [nodes EXCEPT ![selected] = actNode(name, nodes[selected])]
            /\ energy' = spendEnergy(name, energy)
            /\ cooldowns' = spendCooldown(name, cooldowns, now)
            /\ sweepActiveUntil' = IF name = "sweep" THEN now + SWEEP_MS
                                   ELSE sweepActiveUntil
       ELSE UNCHANGED <<nodes, energy, cooldowns, sweepActiveUntil>>
    /\ latestNodes' = nodes'
    /\ renderAt' = now
    /\ UNCHANGED <<now, edges, selected, timer, risk, score, running, paused,
                   gameOver, victory, loop, size, infectedFor>>

\* the keydown listener
onKey(name) ==
    IF ~running \/ paused \/ gameOver
    THEN UNCHANGED appVars
    ELSE act(name)

\* ActionButton: `ready` is canUse(name) as of the last render, and the
\* button is disabled when it is false
ready(name) == canUse(name, energy, cooldowns, renderAt)

ActionButton(name) ==
    IF ~ready(name)
    THEN UNCHANGED appVars
    ELSE act(name)

----------------------------------------------------------------------------
(* The main loop: one animation frame *)

\* a variant of trySpread that lets an attempt into an isolated node through
trySpreadIntoIsolated(st, src, dst, at, hit) ==
    IF \/ ~st.nodes[src].infected
       \/ st.nodes[src].isolated
       \/ st.nodes[dst].infected
    THEN st
    ELSE IF hit
         THEN [nodes |-> [st.nodes EXCEPT ![dst].infected = TRUE,
                                          ![dst].lastInfectAt = st.t],
               lured |-> st.lured + (IF st.nodes[dst].honeypot THEN 1 ELSE 0),
               drawn |-> st.drawn \cup {at},
               t     |-> st.t]
         ELSE [st EXCEPT !.drawn = st.drawn \cup {at}]

\* a variant of trySpread that lets an isolated node infect its neighbours
trySpreadFromIsolated(st, src, dst, at, hit) ==
    IF \/ ~st.nodes[src].infected
       \/ st.nodes[dst].isolated
       \/ st.nodes[dst].infected
    THEN st
    ELSE IF hit
         THEN [nodes |-> [st.nodes EXCEPT ![dst].infected = TRUE,
                                          ![dst].lastInfectAt = st.t],
               lured |-> st.lured + (IF st.nodes[dst].honeypot THEN 1 ELSE 0),
               drawn |-> st.drawn \cup {at},
               t     |-> st.t]
         ELSE [st EXCEPT !.drawn = st.drawn \cup {at}]

\* trySpread(src, dst), as attempt `at` of the frame.  Math.random() is drawn
\* only when the guard lets the attempt through (`drawn` collects those
\* attempts); `hit` is the outcome of Math.random() < p.  `lured` counts the
\* honeypot nodes infected so far in this frame, t is the time of the frame.
trySpread(st, src, dst, at, hit) ==
    IF \/ ~st.nodes[src].infected
       \/ st.nodes[src].isolated
       \/ st.nodes[dst].isolated
       \/ st.nodes[dst].infected
    THEN st
    ELSE IF hit
         THEN [nodes |-> [st.nodes EXCEPT ![dst].infected = TRUE,
                                          ![dst].lastInfectAt = st.t],
               lured |-> st.lured + (IF st.nodes[dst].honeypot THEN 1 ELSE 0),
               drawn |-> st.drawn \cup {at},
               t     |-> st.t]
         ELSE [st EXCEPT !.drawn = st.drawn \cup {at}]

\* const sweepFactor = t < sweepActiveUntil ? 0.35 : 1.0, in hundredths, with
\* the sweepActiveUntil the frame reads
sweepFactor(t, until) == IF t < until THEN 35 ELSE 100

\* the attempts of one frame: each edge, in both directions
Attempts(es) == (1 .. Len(es)) \X {"ab", "ba"}

\* for (const ei of edges) { trySpread(a, b); trySpread(b, a); }, from edge i
\* on: the node objects are updated in place, so an infection made by an
\* earlier edge is seen by a later one
RECURSIVE spreadFrom(_, _, _, _)
spreadFrom(i, es, st, hits) ==
    IF i > Len(es)
    THEN st
    ELSE LET ab == trySpread(st, es[i].a, es[i].b, <<i, "ab">>, <<i, "ab">> \in hits)
             ba == trySpread(ab, es[i].b, es[i].a, <<i, "ba">>, <<i, "ba">> \in hits)
         IN  spreadFrom(i + 1, es, ba, hits)

\* a variant of cleanAdvance that gains at the full rate whatever the patch
\* level
cleanAdvanceFull(n, dt) == n.cleanProg + dt * 140

\* cleanProg after the += of the cure branch
cleanAdvance(n, dt) == n.cleanProg + dt * (60 + 8 * n.patched)

\* a variant of isCleaned that leaves the threshold out
isCleanedAtOnce(n, dt) == n.infected /\ n.patched > 0

\* the node is cleaned in this frame
isCleaned(n, dt) ==
    n.infected /\ n.patched > 0 /\ cleanAdvance(n, dt) >= CLEAN_TIME

\* a variant of cleanStep that leaves the progress of a cleaned node as it is
cleanStepKeep(n, dt) ==
    IF n.infected /\ n.patched > 0
    THEN IF cleanAdvance(n, dt) >= CLEAN_TIME
         THEN [n EXCEPT !.infected = FALSE, !.cleanProg = cleanAdvance(n, dt)]
         ELSE [n EXCEPT !.cleanProg = cleanAdvance(n, dt)]
    ELSE [n EXCEPT !.cleanProg = Max(0, n.cleanProg - dt * 40)]

\* cleaning progression of one node
cleanStep(n, dt) ==
    IF n.infected /\ n.patched > 0
    THEN IF cleanAdvance(n, dt) >= CLEAN_TIME
         THEN [n EXCEPT !.infected = FALSE, !.cleanProg = 0]
         ELSE [n EXCEPT !.cleanProg = cleanAdvance(n, dt)]
    ELSE [n EXCEPT !.cleanProg = Max(0, n.cleanProg - dt * 40)]

\* the number of frames of DT_MAX after which a node patched once is one
\* frame of DT_MAX short of being cleaned
CureQuiet == (CLEAN_TIME \div (DT_MAX * (60 + 8 * PATCH_STEP))) - 1

\* const dt = Math.min(0.06, (t - last) / 1000)
frameDt(t, last) == Min(DT_MAX, t - last)

\* a variant of regenEnergy without the upper clamp
regenEnergyUncapped(e, dt) == Max(0, e + ENERGY_REGEN * dt)

\* setEnergy((e) => clamp(e + 7 * dt))
regenEnergy(e, dt) == Clamp(e + ENERGY_REGEN * dt, 0, ENERGY_MAX * EnergyUnit)

\* setTimer((tm) => clamp(tm - dt))
stepTimer(tm, dt) == Clamp(tm - dt, 0, TimerStart)

\* a variant of outcome that leaves the check of the timer out
outcomeRiskOnly(rk, tm, ns) ==
    IF rk >= RiskOne(ns) THEN "defeat"
    ELSE "continue"

\* the outcome check of the loop, on the risk and the timer of its closure
outcome(rk, tm, ns) ==
    IF rk >= RiskOne(ns) THEN "defeat"
    ELSE IF tm <= 0 THEN "victory"
    ELSE "continue"

\* a variant of winBonus that pays the bonus at either end of the game
winBonusAtAnyEnd(result) == IF result # "continue" THEN WIN_BONUS ELSE 0

\* setScore((s) => s + 200), queued by the victory branch only
winBonus(result) == IF result = "victory" THEN WIN_BONUS ELSE 0

\* the risk the render pass of the loop stores: computed from the snapshot
\* window.__latestNodes, which the snapshot effect set after the last render
renderRisk(snapshot) == computedRisk(snapshot)

\* loop(): the frame callback, the render of the updates it queued, and the
\* effects of that render.  The frame arrives `gap` ms after the previous
\* event; `hits` are the attempts whose random draw is below p.
loopFrame(gap, hits) ==
    /\ loop.raf
    /\ \/ TimerStart - timer < MaxPlayed
       \/ timer <= LateFrames * DT_MAX
       \/ /\ TimerStart - timer >= CureQuiet * DT_MAX
          /\ TimerStart - timer < (CureQuiet + CureFrames) * DT_MAX
    /\ LET t        == now + gap
           dt       == frameDt(t, loop.last)
           spread   == spreadFrom(1, edges, [nodes |-> nodes, lured |-> 0, drawn |-> {}, t |-> t],
                                  hits)
           cleaned  == Cardinality({n \in DOMAIN nodes : isCleaned(spread.nodes[n], dt)})
           newNodes == [n \in DOMAIN nodes |-> cleanStep(spread.nodes[n], dt)]
           result   == outcome(loop.risk, loop.timer, nodes)
           ended    == result # "continue"
           newRisk  == renderRisk(latestNodes)
           newTimer == stepTimer(timer, dt)
           changed  == ended \/ newRisk # risk \/ newTimer # timer
       IN  \* a hit is a draw below p = 1 - exp(-lambda * dt), which is 0 when
           \* dt is 0 and otherwise strictly between 0 and 1
           /\ hits \subseteq spread.drawn
           /\ dt = 0 => hits = {}
           /\ now' = t
           /\ energy' = regenEnergy(energy, dt)
           /\ nodes' = newNodes
           /\ timer' = newTimer
           /\ risk' = newRisk
           /\ score' = score + LURE_BONUS * spread.lured + CURE_BONUS * cleaned
                        + winBonus(result)
           /\ gameOver' = (gameOver \/ ended)
           /\ victory' = IF ended THEN result = "victory" ELSE victory
           /\ running' = (running /\ ~ended)
           /\ lastLog' = IF cleaned > 0 THEN "node cleaned."
                         ELSE IF result = "defeat" THEN "Risk maxed out. Breach containment failed."
                         ELSE IF result = "victory" THEN "Containment sustained. Threat actor disengaged."
                         ELSE lastLog
           /\ latestNodes' = newNodes
           /\ loop' = IF changed
                      THEN LoopEffect(running', paused, gameOver', newRisk, newTimer,
                                      sweepActiveUntil, t)
                      ELSE [loop EXCEPT !.last = t]
           /\ renderAt' = t
           /\ infectedFor' = [n \in DOMAIN nodes |->
                                 IF ~newNodes[n].infected THEN 0
                                 ELSE IF nodes[n].infected THEN infectedFor[n] + dt
                                 ELSE dt]
    /\ UNCHANGED <<edges, selected, paused, cooldowns, sweepActiveUntil, size>>

----------------------------------------------------------------------------
(* Other events *)

\* the canvas click listener, for a click within 16 px of node n.  The
\* start, pause and game-over overlays cover the canvas, so the canvas
\* receives clicks only while the game runs unpaused.
onClick(n) ==
    /\ running /\ ~paused /\ ~gameOver
    /\ selected' = n
    /\ renderAt' = now
    /\ UNCHANGED <<now, nodes, edges, energy, timer, risk, score, running, paused,
                   gameOver, victory, cooldowns, sweepActiveUntil, lastLog,
                   latestNodes, loop, size, infectedFor>>

\* startGame, from the Start / Run Again buttons; setEvents([]) stores a new
\* array, so the main loop effect always runs again
startGame(s) ==
    /\ (~running /\ ~gameOver) \/ gameOver
    /\ score' = 0
    /\ energy' = ENERGY_START * EnergyUnit
    /\ timer' = TimerStart
    /\ risk' = 0
    /\ cooldowns' = [a \in ActionNames |-> NEVER]
    /\ lastLog' = "Simulation initialized."
    /\ nodes' = graphs[size, s].nodes
    /\ edges' = graphs[size, s].edges
    /\ gameOver' = FALSE
    /\ victory' = FALSE
    /\ running' = TRUE
    /\ paused' = FALSE
    /\ latestNodes' = graphs[size, s].nodes
    /\ loop' = LoopEffect(TRUE, FALSE, FALSE, 0, TimerStart, sweepActiveUntil, now)
    /\ renderAt' = now
    /\ infectedFor' = [n \in DOMAIN nodes' |-> 0]
    /\ UNCHANGED <<now, selected, sweepActiveUntil, size>>

\* the pause button of the action panel, once the game was started
pauseButton ==
    /\ ~(~running /\ ~gameOver)
    /\ paused' = ~paused
    /\ loop' = LoopEffect(running, ~paused, gameOver, risk, timer, sweepActiveUntil, now)
    /\ renderAt' = now
    /\ UNCHANGED <<now, nodes, edges, selected, energy, timer, risk, score, running,
                   gameOver, victory, cooldowns, sweepActiveUntil, lastLog,
                   latestNodes, size, infectedFor>>

\* the Resume button of the pause overlay
resumeButton ==
    /\ paused
    /\ paused' = FALSE
    /\ loop' = LoopEffect(running, FALSE, gameOver, risk, timer, sweepActiveUntil, now)
    /\ renderAt' = now
    /\ UNCHANGED <<now, nodes, edges, selected, energy, timer, risk, score, running,
                   gameOver, victory, cooldowns, sweepActiveUntil, lastLog,
                   latestNodes, size, infectedFor>>

\* resetLayout, from the New Topology buttons
resetLayout(s) ==
    /\ nodes' = graphs[size, s].nodes
    /\ edges' = graphs[size, s].edges
    /\ selected' = NULL
    /\ latestNodes' = graphs[size, s].nodes
    /\ renderAt' = now
    /\ infectedFor' = [n \in DOMAIN nodes' |-> 0]
    /\ UNCHANGED <<now, energy, timer, risk, score, running, paused, gameOver,
                   victory, cooldowns, sweepActiveUntil, lastLog, loop, size>>

\* the ResizeObserver callback reports a new size: setSize, and the graph
\* set-up effect, whose dependencies are [seed, size[0], size[1]], runs
\* again with the seed drawn at mount and stores its graph
resize(sz) ==
    /\ sz # size
    /\ size' = sz
    /\ nodes' = graphs[sz, seed].nodes
    /\ edges' = graphs[sz, seed].edges
    /\ latestNodes' = graphs[sz, seed].nodes
    /\ renderAt' = now
    /\ infectedFor' = [n \in DOMAIN nodes' |-> 0]
    /\ UNCHANGED <<now, selected, energy, timer, risk, score, running, paused,
                   gameOver, victory, cooldowns, sweepActiveUntil, lastLog, loop>>

\* cdLeft(name), in ms, with now() = t: the remaining cooldown the action
\* panel shows
cdLeft(name, cds, t) == Max(0, ACTION_TABLE[name].cooldown - (t - cds[name]))

\* the part of the sweep window still ahead of t: the loop applies
\* sweepFactor while t < sweepActiveUntil
sweepLeft(sw, t) == Max(0, sw - t)

\* time passes while no frame is pending
idle(gap) ==
    /\ ~loop.raf
    /\ now' = now + gap
    /\ UNCHANGED <<nodes, edges, selected, energy, timer, risk, score, running,
                   paused, gameOver, victory, cooldowns, sweepActiveUntil, lastLog,
                   latestNodes, loop, renderAt, size, infectedFor>>

----------------------------------------------------------------------------
(* Queued updates.  A setState call queues an update; the updaters run, in
   the order of the calls, in the next render.  The updates of a keydown
   handler are rendered before the next event; those of a frame callback
   are rendered by a task of their own, and a keydown that arrives before
   that task is handled with the values of the last render. *)

\* the updates the frame callback queues at time t
tickUpdate(t, dt, hits, result, rk) ==
    [kind |-> "tick", t |-> t, dt |-> dt, hits |-> hits, result |-> result,
     risk |-> rk, name |-> "", sel |-> NULL, applies |-> TRUE]

\* the updates an action request queues at time t
actUpdate(name, sel, applies, t) ==
    [kind |-> "act", t |-> t, dt |-> 0, hits |-> {}, result |-> "continue",
     risk |-> 0, name |-> name, sel |-> sel, applies |-> applies]

\* a variant of actGraph that builds the graph from the nodes of the last
\* render and not from the argument of the updater
actGraphOfRender(g, rendered, name, sel) ==
    [rendered EXCEPT ![sel] = actNode(name, rendered[sel])]

\* setGraph((g) => { const n = { ...g.nodes[selected] }; ...; nodes[selected] = n;
\* return { ...g, nodes } }): the updater works on its argument g, whatever
\* the nodes of the render in which the handler was created
actGraph(g, rendered, name, sel) ==
    [g EXCEPT ![sel] = actNode(name, g[sel])]

\* the spread phase of the loop's setGraph updater, on the argument g
tickSpread(g, es, u) ==
    spreadFrom(1, es, [nodes |-> g, lured |-> 0, drawn |-> {}, t |-> u.t], u.hits)

\* the loop's setGraph updater, on the argument g
tickGraph(g, es, u) ==
    [n \in DOMAIN g |-> cleanStep(tickSpread(g, es, u).nodes[n], u.dt)]

\* the state after the updaters of update u, on the state st they are given
applyUpdate(st, es, rendered, u) ==
    IF u.kind = "tick"
    THEN LET cleaned == Cardinality({n \in DOMAIN st.nodes :
                                        isCleaned(tickSpread(st.nodes, es, u).nodes[n], u.dt)})
         IN  [st EXCEPT
                !.nodes = tickGraph(st.nodes, es, u),
                !.energy = regenEnergy(st.energy, u.dt),
                !.timer = stepTimer(st.timer, u.dt),
                !.score = st.score + LURE_BONUS * tickSpread(st.nodes, es, u).lured
                            + CURE_BONUS * cleaned + winBonus(u.result),
                !.lastLog = IF cleaned > 0 THEN "node cleaned."
                            ELSE IF u.result = "defeat"
                                 THEN "Risk maxed out. Breach containment failed."
                            ELSE IF u.result = "victory"
                                 THEN "Containment sustained. Threat actor disengaged."
                            ELSE st.lastLog]
    ELSE IF u.applies
    THEN [st EXCEPT
            !.nodes = IF u.name = "sweep" THEN st.nodes
                      ELSE actGraph(st.nodes, rendered, u.name, u.sel),
            !.energy = spendEnergy(u.name, st.energy),
            !.cooldowns = spendCooldown(u.name, st.cooldowns, u.t),
            !.sweepActiveUntil = IF u.name = "sweep" THEN u.t + SWEEP_MS
                                 ELSE st.sweepActiveUntil,
            !.lastLog = ACTION_TABLE[u.name].done]
    ELSE [st EXCEPT !.lastLog = IF u.name # "sweep" /\ u.sel = NULL
                                THEN "Select a node first."
                                ELSE ACTION_TABLE[u.name].notReady]

\* the state after the updaters of the updates i .. Len(us) of us
RECURSIVE applyUpdates(_, _, _, _, _)
applyUpdates(st, es, rendered, us, i) ==
    IF i > Len(us)
    THEN st
    ELSE applyUpdates(applyUpdate(st, es, rendered, us[i]), es, rendered, us, i + 1)

\* the updates queued since the last render
pending == IF batch.rendered THEN <<>> ELSE batch.updates

\* the values of the last render that the updaters change
Rendered ==
    [nodes |-> nodes, energy |-> energy, timer |-> timer, score |-> score,
     cooldowns |-> cooldowns, sweepActiveUntil |-> sweepActiveUntil,
     lastLog |-> lastLog]

\* loop(): the frame callback, up to the render of the updates it queues
loopQueued(gap, hits) ==
    /\ loop.raf
    /\ batch.rendered
    /\ \/ TimerStart - timer < MaxPlayed
       \/ timer <= LateFrames * DT_MAX
       \/ /\ TimerStart - timer >= CureQuiet * DT_MAX
          /\ TimerStart - timer < (CureQuiet + CureFrames) * DT_MAX
    /\ LET t  == now + gap
           dt == frameDt(t, loop.last)
           u  == tickUpdate(t, dt, hits, outcome(loop.risk, loop.timer, nodes),
                            renderRisk(latestNodes))
       IN  /\ hits \subseteq tickSpread(nodes, edges, u).drawn
           /\ dt = 0 => hits = {}
           /\ now' = t
           /\ batch' = [updates |-> <<u>>, rendered |-> FALSE]
           /\ loop' = [loop EXCEPT !.last = t]
    /\ UNCHANGED <<nodes, edges, selected, energy, timer, risk, score, running,
                   paused, gameOver, victory, cooldowns, sweepActiveUntil, lastLog,
                   latestNodes, renderAt, size, infectedFor>>

\* the keydown listener, up to the render of the updates it queues: the
\* handler is the one of the last render, with its selected, energy and
\* cooldowns
keyQueued(name) ==
    /\ running /\ ~paused /\ ~gameOver
    /\ \A i \in 1 .. Len(pending) : pending[i].kind = "tick"
    /\ batch' = [updates  |-> Append(pending,
                                     actUpdate(name, selected,
                                               actApplies(name, selected, energy,
                                                          cooldowns, now),
                                               now)),
                 rendered |-> FALSE]
    /\ UNCHANGED <<now, nodes, edges, selected, energy, timer, risk, score, running,
                   paused, gameOver, victory, cooldowns, sweepActiveUntil, lastLog,
                   latestNodes, loop, renderAt, size, infectedFor>>

\* the render of the queued updates, and its effects
renderQueued ==
    /\ pending # <<>>
    /\ LET st     == applyUpdates(Rendered, edges, nodes, pending, 1)
           ticked == pending[1].kind = "tick"
           u      == pending[1]
           ended  == ticked /\ u.result # "continue"
           newRisk == IF ticked THEN u.risk ELSE risk
           changed == ended \/ newRisk # risk \/ st.timer # timer
       IN  /\ nodes' = st.nodes
           /\ energy' = st.energy
           /\ timer' = st.timer
           /\ score' = st.score
           /\ cooldowns' = st.cooldowns
           /\ sweepActiveUntil' = st.sweepActiveUntil
           /\ lastLog' = st.lastLog
           /\ risk' = newRisk
           /\ gameOver' = (gameOver \/ ended)
           /\ victory' = IF ended THEN u.result = "victory" ELSE victory
           /\ running' = (running /\ ~ended)
           /\ latestNodes' = st.nodes
           /\ loop' = IF changed
                      THEN LoopEffect(running', paused, gameOver', newRisk, st.timer,
                                      st.sweepActiveUntil, now)
                      ELSE loop
           /\ renderAt' = now
           /\ infectedFor' = [n \in DOMAIN nodes |->
                                 IF ~st.nodes[n].infected THEN 0
                                 ELSE IF ~ticked THEN infectedFor[n]
                                 ELSE IF nodes[n].infected THEN infectedFor[n] + u.dt
                                 ELSE u.dt]
           /\ batch' = [batch EXCEPT !.rendered = TRUE]
    /\ UNCHANGED <<now, edges, selected, paused, size, seed, gen, returned, graphs,
                   inputs, horizon>>

----------------------------------------------------------------------------
(* Specifications *)

\* the state after mount: the useState initial values, and the graph the
\* set-up effect generated
Init ==
    /\ now = 0
    /\ graphs = Graphs
    /\ batch = NoBatch
    /\ size = InitialSize
    /\ seed \in GameSeeds
    /\ nodes = graphs[size, seed].nodes
    /\ edges = graphs[size, seed].edges
    /\ latestNodes = nodes
    /\ infectedFor = [n \in DOMAIN nodes |-> 0]
    /\ gen = NoCall
    /\ returned = {}
    /\ selected = NULL
    /\ energy = ENERGY_START * EnergyUnit
    /\ timer = TimerStart
    /\ risk = 0
    /\ score = 0
    /\ running = FALSE
    /\ paused = FALSE
    /\ gameOver = FALSE
    /\ victory = FALSE
    /\ cooldowns = [a \in ActionNames |-> NEVER]
    /\ sweepActiveUntil = -1
    /\ lastLog = ""
    /\ loop = NoLoop
    /\ renderAt = 0
    /\ inputs = 0
    /\ horizon = MaxNow

\* an input event of the player, within the number the model explores
Player(event) ==
    /\ inputs < MaxInputs
    /\ event
    /\ inputs' = inputs + 1
    /\ UNCHANGED <<seed, gen, returned, graphs, batch, horizon>>

\* time passes by `gap`, within the wall-clock time the model explores
Elapse(gap, event) ==
    /\ now + gap <= horizon
    /\ event
    /\ UNCHANGED <<seed, gen, returned, graphs, batch, inputs, horizon>>

Next ==
    \/ \E gap \in FrameGaps : \E hits \in SUBSET Attempts(edges) :
          Elapse(gap, loopFrame(gap, hits))
    \/ \E gap \in IdleGaps : Elapse(gap, idle(gap))
    \/ \E name \in ActionNames : Player(onKey(name))
    \/ \E name \in ActionNames : Player(ActionButton(name))
    \/ \E n \in NodeIds : Player(onClick(n))
    \/ \E s \in GameSeeds : Player(startGame(s))
    \/ Player(pauseButton)
    \/ Player(resumeButton)
    \/ \E s \in GameSeeds : Player(resetLayout(s))
    \/ \E sz \in Sizes : Player(resize(sz))

Spec == Init /\ [][Next]_vars

\* A state late in a session, from which the end of the clock is reached.
\* It is the state Spec reaches from Init when the player starts the game at
\* time 0 and then does nothing for QuietFrames frames of 600 ms (dt is
\* clamped to DT_MAX in each), none of whose attempts infects a node: the
\* clock is LateFrames * DT_MAX above 0, energy has regenerated, the risk is
\* the one of the generated nodes.
QuietFrames == (TimerStart - LateFrames * DT_MAX) \div DT_MAX

InitLate ==
    /\ QuietFrames >= 1
    /\ now = QuietFrames * 600
    /\ graphs = Graphs
    /\ batch = NoBatch
    /\ size = InitialSize
    /\ seed \in GameSeeds
    /\ \E s \in GameSeeds :
          /\ nodes = graphs[size, s].nodes
          /\ edges = graphs[size, s].edges
    /\ latestNodes = nodes
    /\ infectedFor = [n \in DOMAIN nodes |->
                        IF nodes[n].infected THEN QuietFrames * DT_MAX ELSE 0]
    /\ gen = NoCall
    /\ returned = {}
    /\ selected = NULL
    /\ energy = Min(ENERGY_MAX * EnergyUnit,
                    ENERGY_START * EnergyUnit + QuietFrames * ENERGY_REGEN * DT_MAX)
    /\ timer = TimerStart - QuietFrames * DT_MAX
    /\ risk = computedRisk(nodes)
    /\ risk < RiskOne(nodes)
    /\ score = 0
    /\ running = TRUE
    /\ paused = FALSE
    /\ gameOver = FALSE
    /\ victory = FALSE
    /\ cooldowns = [a \in ActionNames |-> NEVER]
    /\ sweepActiveUntil = -1
    /\ lastLog = "Simulation initialized."
    /\ loop = LoopEffect(TRUE, FALSE, FALSE, risk, timer, sweepActiveUntil, now)
    /\ renderAt = now
    /\ inputs = 0
    /\ horizon = now + LateSpan

SpecLate == InitLate /\ [][Next]_vars

\* A state in which the cure of a node is two frames away.  It is the state
\* Spec reaches from Init when the player starts the game at time 0, clicks
\* an infected node v, patches it and engages the sweep at once, and then
\* does nothing for CureQuiet frames of 600 ms (dt is clamped to DT_MAX in
\* each), none of whose attempts infects a node: v has gained
\* DT_MAX * (0.6 + 0.8 * 0.6) of clean progress in each frame, energy has
\* regenerated from what the two actions left, the sweep window is over,
\* the risk is the one of the generated nodes.
InitCure ==
    /\ now = CureQuiet * 600
    /\ graphs = Graphs
    /\ batch = NoBatch
    /\ size = InitialSize
    /\ seed \in GameSeeds
    /\ \E s \in GameSeeds : \E v \in DOMAIN graphs[size, s].nodes :
          /\ graphs[size, s].nodes[v].infected
          /\ selected = v
          /\ nodes = [graphs[size, s].nodes EXCEPT
                        ![v].patched = PATCH_STEP,
                        ![v].cleanProg = CureQuiet * DT_MAX * (60 + 8 * PATCH_STEP)]
          /\ edges = graphs[size, s].edges
    /\ latestNodes = nodes
    /\ infectedFor = [n \in DOMAIN nodes |->
                        IF nodes[n].infected THEN CureQuiet * DT_MAX ELSE 0]
    /\ gen = NoCall
    /\ returned = {}
    /\ energy = Min(ENERGY_MAX * EnergyUnit,
                    spendEnergy("sweep", spendEnergy("patch", ENERGY_START * EnergyUnit))
                      + CureQuiet * ENERGY_REGEN * DT_MAX)
    /\ timer = TimerStart - CureQuiet * DT_MAX
    /\ risk = computedRisk(nodes)
    /\ risk < RiskOne(nodes)
    /\ score = 0
    /\ running = TRUE
    /\ paused = FALSE
    /\ gameOver = FALSE
    /\ victory = FALSE
    /\ CureQuiet * 600 >= SWEEP_MS
    /\ cooldowns = [a \in ActionNames |-> IF a \in {"patch", "sweep"} THEN 0 ELSE NEVER]
    /\ sweepActiveUntil = SWEEP_MS
    /\ lastLog = ACTION_TABLE["sweep"].done
    /\ loop = LoopEffect(TRUE, FALSE, FALSE, risk, timer, sweepActiveUntil, now)
    /\ renderAt = now
    /\ inputs = MaxInputs - CureInputs
    /\ horizon = now + CureSpan

SpecCure == InitCure /\ [][Next]_vars

\* The sessions in which the updates are followed through the queue, from
\* the state in which a cure is due.
PlayerQueued(event) ==
    /\ inputs < MaxInputs
    /\ event
    /\ inputs' = inputs + 1
    /\ UNCHANGED <<seed, gen, returned, graphs, horizon>>

ElapseQueued(gap, event) ==
    /\ now + gap <= horizon
    /\ event
    /\ UNCHANGED <<seed, gen, returned, graphs, inputs, horizon>>

NextQueue ==
    \/ \E gap \in FrameGaps : \E hits \in SUBSET Attempts(edges) :
          ElapseQueued(gap, loopQueued(gap, hits))
    \/ \E name \in ActionNames : PlayerQueued(keyQueued(name))
    \/ \E n \in NodeIds : batch.rendered /\ Player(onClick(n))
    \/ renderQueued

SpecQueue == InitCure /\ [][NextQueue]_vars

\* The sessions that are followed to their end, from the late state: the
\* browser keeps calling the frame callback as long as a frame is requested,
\* whatever the wall-clock time, and each frame comes with t > last; the
\* player gives at most LiveInputs inputs, none of which is a start command
\* (startGame is offered only before the first session and after the end
\* of one).
FrameLive ==
    \E gap \in FrameGaps : \E hits \in SUBSET Attempts(edges) :
        /\ loopFrame(gap, hits)
        /\ UNCHANGED <<seed, gen, returned, graphs, batch, inputs, horizon>>

Attend(event) == inputs < LiveInputs /\ Player(event)

NextLive ==
    \/ FrameLive
    \/ \E gap \in IdleGaps : Elapse(gap, idle(gap))
    \/ \E name \in ActionNames : Attend(onKey(name))
    \/ \E name \in ActionNames : Attend(ActionButton(name))
    \/ \E n \in NodeIds : Attend(onClick(n))
    \/ Attend(pauseButton)
    \/ Attend(resumeButton)
    \/ \E s \in GameSeeds : Attend(resetLayout(s))
    \/ \E sz \in Sizes : Attend(resize(sz))

SpecLive == InitLate /\ [][NextLive]_vars /\ WF_vars(FrameLive)

\* The state after startGame at time 0 on a topology of SpreadNodes nodes,
\* in which some nodes are two edges away from every infected node.  The
\* frames that follow are explored with at most SpreadHits successful draws
\* each, the player selecting nodes and toggling their isolation.
SpreadGraph == generateNetwork(SpreadNodes, InitialSize[1], InitialSize[2], SpreadSeed)

InitSpread ==
    /\ now = 0
    /\ graphs = Graphs
    /\ batch = NoBatch
    /\ size = InitialSize
    /\ seed = SpreadSeed
    /\ nodes = SpreadGraph.nodes
    /\ edges = SpreadGraph.edges
    /\ latestNodes = nodes
    /\ infectedFor = [n \in DOMAIN nodes |-> 0]
    /\ gen = NoCall
    /\ returned = {}
    /\ selected = NULL
    /\ energy = ENERGY_START * EnergyUnit
    /\ timer = TimerStart
    /\ risk = 0
    /\ score = 0
    /\ running = TRUE
    /\ paused = FALSE
    /\ gameOver = FALSE
    /\ victory = FALSE
    /\ cooldowns = [a \in ActionNames |-> NEVER]
    /\ sweepActiveUntil = -1
    /\ lastLog = "Simulation initialized."
    /\ loop = LoopEffect(TRUE, FALSE, FALSE, 0, TimerStart, sweepActiveUntil, now)
    /\ renderAt = now
    /\ inputs = MaxInputs - SpreadInputs
    /\ horizon = SpreadSpan

\* the outcomes of the draws of a frame that are explored: at most k of
\* the attempts succeed
RECURSIVE SpreadDraws(_, _)
SpreadDraws(es, k) ==
    IF k = 0
    THEN {{}}
    ELSE {h \cup {a} : h \in SpreadDraws(es, k - 1), a \in Attempts(es)}

NextSpread ==
    \/ \E gap \in FrameGaps : \E hits \in SpreadDraws(edges, SpreadHits) :
          Elapse(gap, loopFrame(gap, hits))
    \/ \E n \in DOMAIN nodes : Player(onClick(n))
    \/ Player(onKey("isolate"))

SpecSpread == InitSpread /\ [][NextSpread]_vars

\* The generator, followed pass by pass, with NODES nodes.  (In Spec and
\* SpecLate a call of generateNetwork is part of the step that makes it.)
\* The state after mount, when the graph set-up effect has entered
\* generateNetwork(size[0], size[1], seed): the graph is still the one of
\* useState, { nodes: [], edges: [] }.
InitGen ==
    /\ now = 0
    /\ graphs = <<>>
    /\ batch = NoBatch
    /\ size = InitialSize
    /\ seed \in GenSeeds
    /\ nodes = <<>>
    /\ edges = <<>>
    /\ latestNodes = <<>>
    /\ infectedFor = <<>>
    /\ gen = enterGenerate(NODES, size[1], size[2], seed)
    /\ returned = {}
    /\ selected = NULL
    /\ energy = ENERGY_START * EnergyUnit
    /\ timer = TimerStart
    /\ risk = 0
    /\ score = 0
    /\ running = FALSE
    /\ paused = FALSE
    /\ gameOver = FALSE
    /\ victory = FALSE
    /\ cooldowns = [a \in ActionNames |-> NEVER]
    /\ sweepActiveUntil = -1
    /\ lastLog = ""
    /\ loop = NoLoop
    /\ renderAt = 0
    /\ inputs = 0
    /\ horizon = MaxNow

\* one pass of the loop the call is in
generatePass ==
    /\ gen.at \notin {"idle", "return"}
    /\ gen' = generateStep(gen)
    /\ UNCHANGED <<now, nodes, edges, selected, energy, timer, risk, score, running,
                   paused, gameOver, victory, cooldowns, sweepActiveUntil, lastLog,
                   latestNodes, loop, renderAt, size, infectedFor, seed, returned,
                   graphs, batch, inputs, horizon>>

\* return { nodes, edges }, and the effect's setGraph of the returned graph
setGraph ==
    /\ gen.at = "return"
    /\ nodes' = gen.nodes
    /\ edges' = gen.edges
    /\ latestNodes' = gen.nodes
    /\ returned' = returned \cup {[width |-> gen.width, height |-> gen.height,
                                    seed |-> gen.seed, nodes |-> gen.nodes,
                                    edges |-> gen.edges]}
    /\ gen' = NoCall
    /\ renderAt' = now
    /\ infectedFor' = [n \in DOMAIN gen.nodes |-> 0]
    /\ UNCHANGED <<now, selected, energy, timer, risk, score, running, paused,
                   gameOver, victory, cooldowns, sweepActiveUntil, lastLog, loop,
                   size, seed, graphs, batch, inputs, horizon>>

\* the ResizeObserver callback reports a new size: setSize, and the graph
\* set-up effect enters generateNetwork again
observeResize(sz) ==
    /\ gen.at = "idle"
    /\ sz # size
    /\ size' = sz
    /\ gen' = enterGenerate(NODES, sz[1], sz[2], seed)
    /\ renderAt' = now
    /\ UNCHANGED <<now, nodes, edges, selected, energy, timer, risk, score, running,
                   paused, gameOver, victory, cooldowns, sweepActiveUntil, lastLog,
                   latestNodes, loop, infectedFor, seed, returned, graphs, batch,
                   inputs, horizon>>

NextGen ==
    \/ generatePass
    \/ setGraph
    \/ \E sz \in Sizes : observeResize(sz)
    \/ \E gap \in IdleGaps : gen.at = "idle" /\ Elapse(gap, idle(gap))

SpecGen == InitGen /\ [][NextGen]_vars

----------------------------------------------------------------------------
(* Properties *)

\* the step is an animation frame of the main loop (a tick)
IsFrame == loop.raf /\ now' # now

\* the step is a request for action `name`, by its hotkey or by its button
Request(name) == onKey(name) \/ ActionButton(name)

\* the infected / isolated / patched / honeypot fields of every node
NodeFlags(ns) ==
    [n \in DOMAIN ns |-> <<ns[n].infected, ns[n].isolated, ns[n].patched, ns[n].honeypot>>]

\* C1 (terminal freeze): once gameOver is set, no tick and no action request
\* (hotkey or action-panel button) changes score, timer, energy, a cooldown
\* stamp, the sweep window or a node's infected / isolated / patched /
\* honeypot field.
C1_TerminalFreeze ==
    [][gameOver /\ (IsFrame \/ \E name \in ActionNames : Request(name))
         => /\ UNCHANGED <<score, timer, energy, cooldowns, sweepActiveUntil>>
            /\ NodeFlags(nodes') = NodeFlags(nodes)]_vars

\* C2: an action request made while the game is not started or paused changes
\* neither energy, nor the cooldown stamps, nor the sweep window, nor a node.
C2_NotRunningNoOp ==
    [][(~gameOver /\ (~running \/ paused) /\ (\E name \in ActionNames : Request(name)))
         => UNCHANGED <<energy, cooldowns, sweepActiveUntil, nodes>>]_vars

\* C3 (energy bounds): in every reachable state 0 <= energy <= 100.
C3_EnergyBounds == 0 <= energy /\ energy <= ENERGY_MAX * EnergyUnit

\* energy is at its maximum after a frame of the session regenerated it
C3_Witness ==
    /\ running
    /\ timer < TimerStart - QuietFrames * DT_MAX
    /\ energy = ENERGY_MAX * EnergyUnit

\* the conditions C4 names for a request of action `name`
C4_Precondition(name) ==
    /\ energy >= ACTION_TABLE[name].cost * EnergyUnit
    /\ now - cooldowns[name] >= ACTION_TABLE[name].cooldown
    /\ name \in {"isolate", "patch", "honeypot"} => selected # NULL

\* C4: a request is applied only when energy >= cost, the time since the
\* stamp of the last use of the kind in this session >= its cooldown and, for
\* isolate / patch / honeypot, a node is selected; a request made when one of
\* these fails changes neither energy, nor a cooldown stamp, nor the sweep
\* window, nor a node.
C4_AppliedOnlyWhenAllowed ==
    [][\A name \in ActionNames :
         (Request(name) /\ ~C4_Precondition(name))
           => UNCHANGED <<energy, cooldowns, sweepActiveUntil, nodes>>]_vars

\* an isolate request was rejected for its cooldown: isolate was used in this
\* session, and energy (which has only grown since) covers its cost
C4_Witness ==
    /\ running
    /\ selected # NULL
    /\ lastLog = ACTION_TABLE["isolate"].notReady
    /\ cooldowns["isolate"] # NEVER
    /\ energy >= ACTION_TABLE["isolate"].cost * EnergyUnit

\* a request of `name` would be rejected for want of energy only
C5_EnergyOnly(name) ==
    /\ name = "sweep" \/ selected # NULL
    /\ energy < ACTION_TABLE[name].cost * EnergyUnit
    /\ now - cooldowns[name] >= ACTION_TABLE[name].cooldown

\* the report of a request of `name` rejected for its cooldown only: it has
\* the energy, and comes at the very time of the stamp
C5_CooldownOnlyReport(name) ==
    actReport(name, selected, ACTION_TABLE[name].cost * EnergyUnit, cooldowns, cooldowns[name])

\* C5: a request rejected only for insufficient energy is reported differently
\* from one rejected only for an unexpired cooldown.
C5_DistinctRejections ==
    [][\A name \in ActionNames :
         (running /\ ~paused /\ ~gameOver /\ onKey(name) /\ C5_EnergyOnly(name))
           => lastLog' # C5_CooldownOnlyReport(name)]_vars

\* the step applies a request of action `name`: only an applied request
\* lowers energy
Applied(name) == Request(name) /\ energy' < energy

\* C6 (cooldown spacing): within a session, an action kind is applied only
\* when at least its cooldown has passed since its previous application, whose
\* time is its stamp (an application stamps the kind with the current time,
\* and nothing but an application or a start changes a stamp); an isolate
\* request less than 1.2 s after an applied one changes no node flag.
C6_CooldownSpacing ==
    [][/\ \A name \in ActionNames :
            /\ Applied(name)
                 => /\ now - cooldowns[name] >= ACTION_TABLE[name].cooldown
                    /\ cooldowns'[name] = now
            /\ cooldowns'[name] # cooldowns[name]
                 => Applied(name) \/ \E s \in GameSeeds : startGame(s)
       /\ (Request("isolate") /\ now - cooldowns["isolate"] < ACTION_TABLE["isolate"].cooldown)
            => NodeFlags(nodes') = NodeFlags(nodes)]_vars

\* isolate has just been applied a second time in the session: no other
\* kind was used, and energy is below what one isolate leaves
C6_Witness ==
    /\ running
    /\ selected # NULL
    /\ lastLog = ACTION_TABLE["isolate"].done
    /\ cooldowns["isolate"] = now
    /\ \A name \in ActionNames \ {"isolate"} : cooldowns[name] = NEVER
    /\ energy < (ENERGY_START - ACTION_TABLE["isolate"].cost) * EnergyUnit
    /\ ~nodes[selected].isolated

\* C7: while the game is paused, the passing of time changes neither the
\* timer, nor energy, nor a node, nor the remaining cooldown of an action
\* kind, nor the remaining sweep duration.
C7_PauseFreezes ==
    [][(running /\ paused /\ paused' /\ now' # now)
         => /\ UNCHANGED <<timer, energy, nodes>>
            /\ \A name \in ActionNames :
                 cdLeft(name, cooldowns', now') = cdLeft(name, cooldowns, now)
            /\ sweepLeft(sweepActiveUntil', now') = sweepLeft(sweepActiveUntil, now)]_vars

\* C8 (risk freshness): at the end of every tick the stored risk is the risk
\* of the node states that tick produced.
C8_RiskFresh == [][IsFrame => risk' = computedRisk(nodes')]_vars

\* C9 (outcome priority): a tick at whose end the risk of the node states
\* is >= 1 ends the run in Defeat, never in Victory.
C9_DefeatPriority ==
    [][(IsFrame /\ computedRisk(nodes') >= RiskOne(nodes'))
         => (gameOver' /\ ~victory')]_vars

\* the score a frame awards for what it did to the nodes: 8 for each honeypot
\* node it infected, 25 for each node it cleaned
FrameAwards(before, after) ==
    LURE_BONUS * Cardinality({n \in DOMAIN before :
                     ~before[n].infected /\ after[n].infected /\ before[n].honeypot})
    + CURE_BONUS * Cardinality({n \in DOMAIN before :
                     before[n].infected /\ ~after[n].infected})

\* C10 (victory transition): a tick that finds timer <= 0 and risk < 1 ends
\* the run in Victory and adds the bonus of 200 to the score; no other step
\* adds it: a tick that does not end in Victory (a Defeat included) adds the
\* frame's awards only, and a step that is neither a tick nor a start leaves
\* the score alone, so the bonus is not awarded again before a restart.
C10_VictoryBonus ==
    [][/\ (IsFrame /\ timer <= 0 /\ risk < RiskOne(nodes))
            => /\ gameOver' /\ victory' /\ ~running'
               /\ score' = score + FrameAwards(nodes, nodes') + WIN_BONUS
       /\ (IsFrame /\ ~(gameOver' /\ victory'))
            => score' = score + FrameAwards(nodes, nodes')
       /\ (~IsFrame /\ ~(\E s \in GameSeeds : startGame(s)))
            => score' = score
       /\ (gameOver /\ gameOver') => score' = score]_vars

\* the run has ended in Victory and the score holds the bonus
C10_Witness == gameOver /\ victory /\ score >= WIN_BONUS

\* C11 (run phase): the flags encode exactly one of NotStarted, Running,
\* Paused and Ended: never paused together with gameOver, never paused while
\* not running, never running together with gameOver, victory only with
\* gameOver.
C11_OnePhase ==
    /\ ~(paused /\ gameOver)
    /\ paused => running
    /\ ~(running /\ gameOver)
    /\ victory => gameOver

\* the step is a start or restart command
StartStep == \E s \in GameSeeds : startGame(s)

\* the node is as generateNetwork leaves a node, infection apart
FreshNode(n) == ~n.isolated /\ n.patched = 0 /\ ~n.honeypot /\ n.cleanProg = 0

\* C12 (restart replaces the session): right after a start or restart command
\* score is 0, energy 70, timer 180, risk 0, every action kind is off
\* cooldown, no sweep is active (neither in the state nor in the closure of
\* the loop that starts), and no node is isolated, patched, honeypot or has
\* clean progress.
C12_RestartReplaces ==
    [][StartStep
         => /\ score' = 0
            /\ energy' = ENERGY_START * EnergyUnit
            /\ timer' = TimerStart
            /\ risk' = 0
            /\ \A name \in ActionNames : cdLeft(name, cooldowns', now') = 0
            /\ sweepLeft(sweepActiveUntil', now') = 0
            /\ sweepLeft(loop'.sweepActiveUntil, now') = 0
            /\ \A n \in DOMAIN nodes' : FreshNode(nodes'[n])]_vars

\* the step is a new-topology command
ResetStep == \E s \in GameSeeds : resetLayout(s)

\* C13 (new topology is atomic with the game state): right after a
\* new-topology command, in whatever phase it was issued, the new topology
\* is not combined with game-state values of the old session: timer, energy,
\* score, cooldown stamps and sweep window have their initial values and no
\* outcome of the old session stands.
C13_ResetReplacesGameState ==
    [][ResetStep
         => /\ timer' = TimerStart
            /\ energy' = ENERGY_START * EnergyUnit
            /\ score' = 0
            /\ \A name \in ActionNames : cooldowns'[name] = NEVER
            /\ sweepLeft(sweepActiveUntil', now') = 0
            /\ ~gameOver' /\ ~victory']_vars

\* the part of the nodes that generateNetwork fixes: id, position, security,
\* critical tag
Layout(ns) ==
    [n \in DOMAIN ns |-> <<ns[n].id, ns[n].x, ns[n].y, ns[n].security, ns[n].critical>>]

\* C14 (the topology is immutable within a session): while a session runs,
\* a step that is neither a start nor a new-topology command leaves the edges
\* and every node's id, position, security and critical tag as they are, and
\* takes back no hardening of a node.
C14_TopologyFixed ==
    [][(running /\ ~StartStep /\ ~ResetStep)
         => /\ edges' = edges
            /\ Layout(nodes') = Layout(nodes)
            /\ \A n \in DOMAIN nodes : nodes'[n].patched >= nodes[n].patched]_vars

\* the nodes an edge joins to node n
Neighbours(es, n) ==
    {es[j].b : j \in {k \in 1 .. Len(es) : es[k].a = n}}
      \cup {es[j].a : j \in {k \in 1 .. Len(es) : es[k].b = n}}

\* C15 (isolation blocks spread): in a frame, a node that is isolated and
\* uninfected stays uninfected, and a node that the frame infects has a
\* neighbour that is infected (before the frame, or by it) and not isolated:
\* an isolated infected node infects nobody.
C15_IsolationBlocksSpread ==
    [][IsFrame
         => \A n \in DOMAIN nodes :
               (nodes'[n].infected /\ ~nodes[n].infected)
                 => /\ ~nodes[n].isolated
                    /\ \E m \in Neighbours(edges, n) :
                          /\ ~nodes[m].isolated
                          /\ nodes[m].infected \/ nodes'[m].infected]_vars

\* frames have run after the last use of Isolate, on a graph with an
\* isolated uninfected node next to an infected node that is not isolated
C15_Witness ==
    /\ running /\ loop.raf /\ loop.last = now
    /\ cooldowns["isolate"] # NEVER /\ cooldowns["isolate"] < now
    /\ \E n \in DOMAIN nodes :
          /\ nodes[n].isolated /\ ~nodes[n].infected
          /\ \E m \in Neighbours(edges, n) : nodes[m].infected /\ ~nodes[m].isolated

\* the number of edges of es at node n
degree(es, n) == Cardinality({j \in 1 .. Len(es) : es[j].a = n \/ es[j].b = n})

\* C16 (graph well-formedness): the graph a call of generateNetwork returns
\* has no self-loop, no two edges with the same unordered pair of endpoints,
\* only ids of its nodes as endpoints, and at least k = 3 edges at every
\* node.
C16_WellFormed ==
    gen.at = "return"
      => /\ \A j \in 1 .. Len(gen.edges) :
               /\ gen.edges[j].a # gen.edges[j].b
               /\ gen.edges[j].a \in DOMAIN gen.nodes
               /\ gen.edges[j].b \in DOMAIN gen.nodes
               /\ \A k \in 1 .. Len(gen.edges) :
                     k # j => {gen.edges[k].a, gen.edges[k].b}
                                # {gen.edges[j].a, gen.edges[j].b}
         /\ \A n \in DOMAIN gen.nodes : degree(gen.edges, n) >= K_NEAREST

\* a call returns a graph of NODES nodes in which a node is the nearest of
\* a node that comes later in the loop (the later node finds the edge in
\* place), after an earlier call has returned
C16_Witness ==
    /\ gen.at = "return"
    /\ returned # {}
    /\ Cardinality(DOMAIN gen.nodes) = NODES
    /\ \E n \in DOMAIN gen.nodes :
          \E j \in 1 .. Len(gen.edges) :
             /\ gen.edges[j].a < n /\ gen.edges[j].b = n
             /\ gen.edges[j].a = nearest(gen.nodes, n, DOMAIN gen.nodes \ {n}, 1)[1]

\* C17 (critical nodes): the graph a call of generateNetwork returns has
\* exactly CRITICAL_COUNT critical nodes, and the security of each of them
\* is the security it was placed with, raised by 0.15 once and capped at 1.
C17_ThreeCritical ==
    gen.at = "return"
      => /\ Cardinality({n \in DOMAIN gen.nodes : gen.nodes[n].critical}) = CRITICAL_COUNT
         /\ \A n \in DOMAIN gen.nodes :
               gen.nodes[n].critical
                 => gen.nodes[n].security
                      = Min(1000, placeNode(gen.count, gen.width, gen.height, gen.seed,
                                            n).security + CRIT_SECURITY)

\* C18 (initial outbreak): the graph a call of generateNetwork returns has
\* exactly 2 infected nodes, stamped as infected at time 0, and every other
\* node is uninfected and never was infected.
C18_TwoInfected ==
    gen.at = "return"
      => /\ Cardinality({n \in DOMAIN gen.nodes : gen.nodes[n].infected}) = SEED_INFECTIONS
         /\ \A n \in DOMAIN gen.nodes :
               gen.nodes[n].lastInfectAt = IF gen.nodes[n].infected THEN 0 ELSE NEVER

Flag(name, n) == IF name = "isolate" THEN n.isolated ELSE n.honeypot

\* C20 (toggle involution, patch has no undo): an application of isolate or
\* honeypot flips the flag of the selected node and nothing else of the
\* graph; while a session runs, no other step than a start or a
\* new-topology command changes a flag (so that two applications restore
\* it), and no such step lowers a node's patched level, which is 0, 0.6
\* or 1.0.
C20_TogglesAndPatch ==
    [][/\ \A name \in {"isolate", "honeypot"} :
             /\ Applied(name)
                   => /\ Flag(name, nodes'[selected]) = ~Flag(name, nodes[selected])
                      /\ \A n \in DOMAIN nodes \ {selected} : nodes'[n] = nodes[n]
             /\ (running /\ ~Applied(name) /\ ~StartStep /\ ~ResetStep)
                   => \A n \in DOMAIN nodes : Flag(name, nodes'[n]) = Flag(name, nodes[n])
       /\ (running /\ ~StartStep /\ ~ResetStep)
             => \A n \in DOMAIN nodes :
                   /\ nodes'[n].patched >= nodes[n].patched
                   /\ nodes'[n].patched \in {0, PATCH_STEP, 10}]_vars

\* C21 (cure timing): in a tick of length dt, a node that is infected with
\* patched > 0 gains dt * (0.6 + 0.8 * patched) of clean progress; it stays
\* infected while the sum is below 6.5, and in the first tick in which the
\* sum reaches 6.5 it is cured: infected false, clean progress 0, 25 added to
\* the score for each cured node.  No node is cured otherwise, and none
\* before the game time of the ticks since its infection reaches 6.5 / 1.4.
C21_CureTiming ==
    [][IsFrame
         => LET dt == frameDt(now', loop.last)
                gain(n) == nodes[n].cleanProg + dt * (60 + 8 * nodes[n].patched)
                cured == {n \in DOMAIN nodes : nodes[n].infected /\ ~nodes'[n].infected}
            IN  /\ \A n \in DOMAIN nodes :
                      (nodes[n].infected /\ nodes[n].patched > 0)
                        => IF gain(n) < CLEAN_TIME
                           THEN nodes'[n].infected /\ nodes'[n].cleanProg = gain(n)
                           ELSE ~nodes'[n].infected /\ nodes'[n].cleanProg = 0
                /\ \A n \in cured :
                      /\ nodes[n].patched > 0
                      /\ nodes[n].cleanProg < CLEAN_TIME
                      /\ gain(n) >= CLEAN_TIME
                      /\ 140 * (infectedFor[n] + dt) >= CLEAN_TIME
                /\ score' >= score + CURE_BONUS * Cardinality(cured)
                /\ (~gameOver' /\ \A n \in DOMAIN nodes : ~nodes[n].honeypot)
                      => score' = score + CURE_BONUS * Cardinality(cured)]_vars

\* a node was cured by the last tick: the score holds the award, and the
\* node, still patched, is clean with no clean progress
C21_Witness ==
    /\ lastLog = "node cleaned."
    /\ score = CURE_BONUS
    /\ \E n \in DOMAIN nodes :
          /\ nodes[n].patched > 0
          /\ ~nodes[n].infected
          /\ nodes[n].cleanProg = 0
          /\ infectedFor[n] = 0

\* C22 (sweep window): an applied sweep at time T sets sweepActiveUntil to
\* T + 8 s, and every tick, at its time t, computes its spread with
\* sweepFactor 0.35 if and only if t is before the current sweepActiveUntil,
\* the first tick after the sweep included.
C22_SweepWindow ==
    [][/\ Applied("sweep") => sweepActiveUntil' = now + SWEEP_MS
       /\ IsFrame
            => (sweepFactor(now', loop.sweepActiveUntil) = 35 <=> now' < sweepActiveUntil)]_vars

\* C23 (score): between one start command and the next the score never
\* decreases, and it changes only by the awards of a tick: 8 for each
\* honeypot node the tick infects, 25 for each node it cures, 200 if it ends
\* the run in Victory.
C23_ScoreMonotone ==
    [][~StartStep
         => LET lured == {n \in DOMAIN nodes :
                            nodes[n].honeypot /\ ~nodes[n].infected /\ nodes'[n].infected}
                cured == {n \in DOMAIN nodes : nodes[n].infected /\ ~nodes'[n].infected}
                won   == IF ~gameOver /\ gameOver' /\ victory' THEN 1 ELSE 0
            IN  /\ score' >= score
                /\ IsFrame => score' - score = 8 * Cardinality(lured)
                                                + 25 * Cardinality(cured) + 200 * won
                /\ ~IsFrame => score' = score]_vars

\* a session in which one tick or two have infected a honeypot node and
\* cured a node: the score holds both awards
C23_Witness ==
    /\ score = 8 + 25
    /\ ~gameOver
    /\ \E n \in DOMAIN nodes : nodes[n].honeypot /\ nodes[n].infected

\* C25 (clean progress): in every state a node's cleanProg is at least 0 and
\* below CLEAN_TIME (6.5 s), and it is positive only on an infected node
\* with patched > 0, so that an uninfected node has cleanProg 0; a node a
\* tick infects starts its cure from 0: after the tick it holds the
\* progress of that one tick if it is patched, and 0 if it is not.
CleanProgOnCured ==
    \A n \in DOMAIN nodes :
        /\ 0 <= nodes[n].cleanProg
        /\ nodes[n].cleanProg < CLEAN_TIME
        /\ nodes[n].cleanProg > 0 => (nodes[n].infected /\ nodes[n].patched > 0)

C25_CleanProg ==
    /\ CleanProgOnCured
    /\ [][/\ CleanProgOnCured'
          /\ IsFrame
               => \A n \in DOMAIN nodes :
                     (~nodes[n].infected /\ nodes'[n].infected)
                       => /\ nodes[n].cleanProg = 0
                          /\ nodes'[n].cleanProg
                               = IF nodes[n].patched > 0
                                 THEN frameDt(now', loop.last) * (60 + 8 * nodes[n].patched)
                                 ELSE 0]_vars

\* a tick has just infected a patched node: the node holds the clean
\* progress of that one tick, while another node is clean with no progress
C25_Witness ==
    \E n, m \in DOMAIN nodes :
        /\ nodes[n].infected
        /\ nodes[n].patched > 0
        /\ infectedFor[n] > 0
        /\ infectedFor[n] <= DT_MAX
        /\ nodes[n].cleanProg = infectedFor[n] * (60 + 8 * nodes[n].patched)
        /\ ~nodes[m].infected
        /\ nodes[m].cleanProg = 0

\* the nodes joined to a node of R by a path of edges all of whose nodes are
\* not isolated (R itself included)
RECURSIVE LiveReach(_, _, _)
LiveReach(es, ns, R) ==
    LET more == {n \in DOMAIN ns :
                    ~ns[n].isolated /\ \E m \in R : n \in Neighbours(es, m)}
    IN  IF more \subseteq R THEN R ELSE LiveReach(es, ns, R \cup more)

\* C26 (infection travels along live edges): a node that is uninfected
\* before a tick and infected after it is not isolated, and a path of edges
\* all of whose nodes are not isolated joins it to a node that was infected
\* before the tick; a tick that starts with no infected node that is not
\* isolated infects no node.
C26_LiveEdges ==
    [][IsFrame
         => LET sources == {m \in DOMAIN nodes : nodes[m].infected /\ ~nodes[m].isolated}
                fresh   == {n \in DOMAIN nodes : ~nodes[n].infected /\ nodes'[n].infected}
            IN  /\ \A n \in fresh :
                      ~nodes[n].isolated /\ n \in LiveReach(edges, nodes, sources)
                /\ sources = {} => fresh = {}]_vars

\* the last tick infected a node none of whose neighbours was infected and
\* not isolated before it: the infection came over two edges in one tick,
\* around an isolated node
C26_Witness ==
    /\ loop.last = now
    /\ now > 0
    /\ cooldowns["isolate"] # NEVER
    /\ cooldowns["isolate"] < now
    /\ \E i \in DOMAIN nodes : nodes[i].isolated
    /\ \E n \in DOMAIN nodes :
          /\ nodes[n].infected
          /\ nodes[n].lastInfectAt = now
          /\ infectedFor[n] > 0
          /\ \A m \in Neighbours(edges, n) :
                (nodes[m].infected /\ ~nodes[m].isolated) => nodes[m].lastInfectAt = now

\* C27 (termination): in a session in which the frames keep coming, each
\* with dt > 0, and the player does not restart and from some point on
\* leaves the game unpaused, every running state is followed by the end of
\* the game; the clock never goes up in such a session and ends at most one
\* frame after it reached 0.
C27_Terminates ==
    /\ (<>[]~paused) => [](running => <>gameOver)
    /\ [][timer' <= timer /\ (IsFrame /\ loop.timer = 0 => gameOver')]_vars

\* a session that the clock ended in Victory, after the inputs of the
\* player: the last frame found the timer of its closure at 0
C27_Witness ==
    /\ gameOver /\ victory /\ ~running
    /\ timer = 0
    /\ inputs = LiveInputs
    /\ renderAt = now
    /\ loop = NoLoop

\* the step is the render of the queued updates
IsRender == ~batch.rendered /\ batch'.rendered

\* the isolated / patched / honeypot fields of a node
ActionFields(n) == <<n.isolated, n.patched, n.honeypot>>

\* the infected / cleanProg / lastInfectAt fields of a node
TickFields(n) == <<n.infected, n.cleanProg, n.lastInfectAt>>

\* C24 (no lost update): the frame callback and the action handlers only
\* queue their updates, and change no node; the render of the updates of a
\* tick and of an applied action that was requested before that render
\* leaves, on every node, the infection and cure changes of the tick, and on
\* the target node the effect of the action, the other nodes keeping their
\* isolated / patched / honeypot fields; a tick infects no node that an
\* action rendered before it had isolated.
C24_NoLostUpdate ==
    [][/\ ~IsRender => nodes' = nodes
       /\ IsRender
            => LET us     == batch.updates
                   ticks  == {i \in 1 .. Len(us) : us[i].kind = "tick"}
                   acts   == {i \in 1 .. Len(us) :
                                /\ us[i].kind = "act"
                                /\ us[i].applies
                                /\ us[i].name # "sweep"}
                   ticked == IF ticks = {} THEN nodes
                             ELSE tickGraph(nodes, edges, us[CHOOSE i \in ticks : TRUE])
               IN  /\ Cardinality(ticks) <= 1
                   /\ Cardinality(acts) <= 1
                   /\ \A n \in DOMAIN nodes :
                         /\ TickFields(nodes'[n]) = TickFields(ticked[n])
                         /\ (\A i \in acts : us[i].sel # n)
                              => ActionFields(nodes'[n]) = ActionFields(nodes[n])
                         /\ \A i \in acts :
                               us[i].sel = n
                                 => ActionFields(nodes'[n])
                                      = ActionFields(actNode(us[i].name, nodes[n]))
                         /\ (nodes[n].isolated /\ ~nodes[n].infected)
                              => ~nodes'[n].infected]_vars

\* the last render applied a tick that infected a node and an isolation
\* that was requested before the tick was rendered: the selected node is
\* isolated, holds the clean progress of the tick, and the other node is
\* infected since that tick
C24_Witness ==
    /\ batch.rendered
    /\ Len(batch.updates) = 2
    /\ batch.updates[1].kind = "tick"
    /\ batch.updates[1].hits # {}
    /\ batch.updates[2].kind = "act"
    /\ batch.updates[2].applies
    /\ batch.updates[2].name = "isolate"
    /\ batch.updates[2].sel = selected
    /\ nodes[selected].isolated
    /\ nodes[selected].infected
    /\ nodes[selected].cleanProg
         = (CureQuiet * DT_MAX + batch.updates[1].dt) * (60 + 8 * PATCH_STEP)
    /\ \E n \in DOMAIN nodes :
          /\ n # selected
          /\ nodes[n].infected
          /\ nodes[n].lastInfectAt = batch.updates[1].t

============================================================================
